---- MODULE Spec2Model ----
(***************************************************************************)
(* Model of app/main.py: the posts / comments CRUD handlers.               *)
(*                                                                         *)
(* Every handler is a coroutine that suspends at each awaited database     *)
(* call.  One action of the model is one database call together with the   *)
(* code that runs up to the next await (or up to the response).  Several   *)
(* requests are in flight at once; their database calls interleave.        *)
(*                                                                         *)
(* The tables and the request/response models are declared in              *)
(* app/models, outside main.py.  They are taken from the specification:    *)
(* posts(id, title, content), comments(id, post_id, body); ids are handed   *)
(* out by the store in increasing order and never again; the store keeps a  *)
(* comment whose post is gone (no cascade, no check of post_id on insert    *)
(* or delete); PostDB is id, title, content and PostPublic adds comments.   *)
(***************************************************************************)
EXTENDS Integers, Sequences, FiniteSets, TLC

\* ---------------------------------------------------------------- bounds
MaxQuery    == 110    \* largest skip or limit of the pagination check
MaxRequests == 4      \* requests served in one run

\* ------------------------------------------------------ program constants
DefaultSkip  == 0     \* Query(0, ge=0)
DefaultLimit == 10    \* Query(10, ge=0)
LimitCap     == 100   \* min(100, limit)

HTTP_200_OK                    == 200
HTTP_201_CREATED               == 201
HTTP_204_NO_CONTENT            == 204
HTTP_400_BAD_REQUEST           == 400
HTTP_404_NOT_FOUND             == 404
HTTP_500_INTERNAL_SERVER_ERROR == 500

\* ----------------------------------------------------------------- inputs
Reqs     == {"r1", "r2"}             \* requests in flight at once
NewTitle   == "X"                    \* the values PATCH requests carry
NewContent == "Y"
Bodies   == {"hi"}
PostIds  == {1, 2}                   \* ids clients name in a path or payload
Unset    == -1                       \* a query parameter the client left out
\* <<skip, limit>> of GET /posts: no parameters, a window, a limit over the cap
Queries  == {<<Unset, Unset>>, <<1, 1>>, <<0, LimitCap + 1>>}
AllQueries == (0..MaxQuery \cup {Unset}) \X (0..MaxQuery \cup {Unset})

VARIABLES posts, comments, post_id_seq, comment_id_seq, req, started

vars == <<posts, comments, post_id_seq, comment_id_seq, req, started>>

\* ------------------------------------------------------------ value shapes
NoRow  == [id |-> 0, title |-> "", content |-> ""]      \* fetch_one -> None
NoBody == [detail |-> <<>>]

PostCreate == {[title |-> "A", content |-> "B"],
               [title |-> NewTitle, content |-> NewContent]}

\* PostPartialUpdate payloads: the fields the client set, each with its value.
\* (What .values() builds from an empty dict is the query builder's matter; the
\* payloads here set at least one field.)
PostPartialUpdate ==
    {[title |-> NewTitle], [content |-> NewContent],
     [title |-> NewTitle, content |-> NewContent]}

CommentCreate == [post_id : PostIds, body : Bodies]

Idle ==
    [op |-> "idle", pc |-> "idle", n |-> 0, id |-> 0, post |-> [title |-> "", content |-> ""],
     post_update |-> [f \in {} |-> ""], comment |-> [post_id |-> 0, body |-> ""],
     comment_id |-> 0, raw_post |-> NoRow, skip |-> 0, limit |-> 0,
     pagination |-> <<0, 0>>,
     status |-> 0, body |-> NoBody]

Min(a, b) == IF a <= b THEN a ELSE b

\* ----------------------------------------------------------- the database
\* fetch_one(table.select().where(table.c.id == id)): the row, or None
FetchOne(table, id) ==
    IF \E row \in table : row.id = id
    THEN CHOOSE row \in table : row.id = id
    ELSE NoRow

\* fetch_all of a select without ORDER BY: the rows in any order
FetchAll(rows) ==
    {s \in [1..Cardinality(rows) -> rows] :
        \A i, j \in 1..Cardinality(rows) : i # j => s[i] # s[j]}

\* faulty variant: the select without .limit()
WindowNoLimit(s, skip, limit) ==
    SubSeq(s, skip + 1, Len(s))

\* .offset(skip).limit(limit) applied to an ordered result
Window(s, skip, limit) ==
    SubSeq(s, skip + 1, Min(Len(s), skip + limit))

\* faulty variant: the dump without exclude_unset, absent fields written as empty
UpdateRowsAllFields(table, id, values) ==
    {IF row.id = id
     THEN [f \in DOMAIN row |->
              IF f \in DOMAIN values THEN values[f]
              ELSE IF f = "id" THEN row[f] ELSE ""]
     ELSE row : row \in table}

\* posts.update().where(posts.c.id == id).values(values)
UpdateRows(table, id, values) ==
    {IF row.id = id
     THEN [f \in DOMAIN row |-> IF f \in DOMAIN values THEN values[f] ELSE row[f]]
     ELSE row : row \in table}

\* faulty variant: the where clause with the comparison inverted
DeleteRowsOthers(table, id) == {row \in table : row.id = id}

\* posts.delete().where(posts.c.id == id)
DeleteRows(table, id) == {row \in table : row.id # id}

\* ------------------------------------------------------------- pagination
\* faulty variant: max in place of min
paginationMax(skip, limit) ==
    LET s == IF skip = Unset THEN DefaultSkip ELSE skip
        l == IF limit = Unset THEN DefaultLimit ELSE limit
        capped_limit == IF LimitCap >= l THEN LimitCap ELSE l
    IN  <<s, capped_limit>>

pagination(skip, limit) ==
    LET s == IF skip = Unset THEN DefaultSkip ELSE skip
        l == IF limit = Unset THEN DefaultLimit ELSE limit
        capped_limit == Min(LimitCap, l)
    IN  <<s, capped_limit>>

\* --------------------------------------------------------- response models
PostPublic(raw_post, comments_list) ==
    [id |-> raw_post.id, title |-> raw_post.title, content |-> raw_post.content,
     comments |-> comments_list]

\* response_model=PostDB: the response keeps the fields of PostDB only
PostDB(post) == [id |-> post.id, title |-> post.title, content |-> post.content]

Init ==
    /\ posts = {}
    /\ comments = {}
    /\ post_id_seq = 1
    /\ comment_id_seq = 1
    /\ req = [r \in Reqs |-> Idle]
    /\ started = 0

\* the server takes a new request on a slot whose last response has been sent;
\* n is the request's place in the order of arrival
Accept(r) ==
    /\ req[r].pc \in {"idle", "done"}
    /\ started < MaxRequests
    /\ started' = started + 1

Request(op) == [Idle EXCEPT !.op = op, !.n = started + 1]

\* the handler returns or raises: its locals are gone, the response is sent
Respond(rec, status, body) ==
    [rec EXCEPT !.pc = "done", !.status = status, !.body = body,
                !.raw_post = NoRow, !.comment_id = 0]

\* faulty variant: get_post_or_404 without the None check
SelectPostUnchecked(rec, next) ==
    [rec EXCEPT !.pc = next, !.raw_post = FetchOne(posts, rec.id)]

\* ---------------------------------------------------------- get_post_or_404
\* first query of get_post_or_404: the post row, or 404
SelectPost(rec, next) ==
    LET raw_post == FetchOne(posts, rec.id)
    IN  IF raw_post = NoRow
        THEN Respond(rec, HTTP_404_NOT_FOUND, NoBody)
        ELSE [rec EXCEPT !.pc = next, !.raw_post = raw_post]

\* second query of get_post_or_404 and the PostPublic it returns; update_post and
\* delete_post read nothing but post.id of it
SelectPostComments(rec, comments_list) ==
    LET post == PostPublic(rec.raw_post, comments_list)
    IN  CASE rec.pc = "dep_select_post_comments" /\ rec.op = "get_post" ->
                Respond(rec, HTTP_200_OK, PostDB(post))
          [] rec.pc = "dep_select_post_comments" /\ rec.op # "get_post" ->
                [rec EXCEPT !.pc = "execute", !.id = post.id, !.raw_post = NoRow]
          [] rec.pc = "select_post_comments" /\ rec.op = "create_post" ->
                Respond(rec, HTTP_201_CREATED, PostDB(post))
          [] OTHER ->
                Respond(rec, HTTP_200_OK, PostDB(post))

select_post(r) ==
    /\ req[r].pc = "select_post"
    /\ req' = [req EXCEPT ![r] = SelectPost(req[r], "select_post_comments")]
    /\ UNCHANGED <<posts, comments, post_id_seq, comment_id_seq, started>>

select_post_comments(r) ==
    /\ req[r].pc \in {"select_post_comments", "dep_select_post_comments"}
    /\ \E comments_list \in FetchAll({c \in comments : c.post_id = req[r].id}) :
          req' = [req EXCEPT ![r] = SelectPostComments(req[r], comments_list)]
    /\ UNCHANGED <<posts, comments, post_id_seq, comment_id_seq, started>>

\* ------------------------------------------------------------- create_post
\* faulty variant: the values of the insert with title and content exchanged
InsertPostSwapped(table, post_id, post) ==
    table \cup {[id |-> post_id, title |-> post.content, content |-> post.title]}

InsertPost(table, post_id, post) ==
    table \cup {[id |-> post_id, title |-> post.title, content |-> post.content]}

create_post(r) ==
    /\ Accept(r)
    /\ \E post \in PostCreate :
          LET post_id == post_id_seq
          IN  /\ posts' = InsertPost(posts, post_id, post)
              /\ post_id_seq' = post_id_seq + 1
              /\ req' = [req EXCEPT ![r] =
                            [Request("create_post") EXCEPT !.pc = "select_post",
                                         !.post = post, !.id = post_id]]
    /\ UNCHANGED <<comments, comment_id_seq>>

\* -------------------------------------------------------------- list_posts
ListPosts(r, query) ==
    LET pg == pagination(query[1], query[2])
    IN  \E rows \in FetchAll(posts) :
           req' = [req EXCEPT ![r] =
                      Respond([Request("list_posts") EXCEPT !.skip = query[1],
                                           !.limit = query[2], !.pagination = pg],
                              HTTP_200_OK,
                              [rows |-> Window(rows, pg[1], pg[2])])]

list_posts(r) ==
    /\ Accept(r)
    /\ \E query \in Queries : ListPosts(r, query)
    /\ UNCHANGED <<posts, comments, post_id_seq, comment_id_seq>>

\* ---------------------------------------------------------------- get_post
get_post(r) ==
    /\ Accept(r)
    /\ \E id \in PostIds :
          req' = [req EXCEPT ![r] =
                     SelectPost([Request("get_post") EXCEPT !.id = id],
                                "dep_select_post_comments")]
    /\ UNCHANGED <<posts, comments, post_id_seq, comment_id_seq>>

\* ------------------------------------------------------------- update_post
update_post(r) ==
    /\ Accept(r)
    /\ \E id \in PostIds, post_update \in PostPartialUpdate :
          req' = [req EXCEPT ![r] =
                     SelectPost([Request("update_post") EXCEPT !.id = id,
                                             !.post_update = post_update],
                                "dep_select_post_comments")]
    /\ UNCHANGED <<posts, comments, post_id_seq, comment_id_seq>>

execute_update(r) ==
    /\ req[r].op = "update_post"
    /\ req[r].pc = "execute"
    /\ posts' = UpdateRows(posts, req[r].id, req[r].post_update)
    /\ req' = [req EXCEPT ![r].pc = "select_post"]
    /\ UNCHANGED <<comments, post_id_seq, comment_id_seq, started>>

\* ------------------------------------------------------------- delete_post
delete_post(r) ==
    /\ Accept(r)
    /\ \E id \in PostIds :
          req' = [req EXCEPT ![r] =
                     SelectPost([Request("delete_post") EXCEPT !.id = id],
                                "dep_select_post_comments")]
    /\ UNCHANGED <<posts, comments, post_id_seq, comment_id_seq>>

\* faulty variant: the delete taking the post's comments with it
execute_delete_cascade(r) ==
    /\ req[r].op = "delete_post"
    /\ req[r].pc = "execute"
    /\ posts' = DeleteRows(posts, req[r].id)
    /\ comments' = {c \in comments : c.post_id # req[r].id}
    /\ req' = [req EXCEPT ![r] = Respond(req[r], HTTP_204_NO_CONTENT, NoBody)]
    /\ UNCHANGED <<post_id_seq, comment_id_seq, started>>

execute_delete(r) ==
    /\ req[r].op = "delete_post"
    /\ req[r].pc = "execute"
    /\ posts' = DeleteRows(posts, req[r].id)
    /\ req' = [req EXCEPT ![r] = Respond(req[r], HTTP_204_NO_CONTENT, NoBody)]
    /\ UNCHANGED <<comments, post_id_seq, comment_id_seq, started>>

\* ---------------------------------------------------------- create_comment
PostMissing(post_id) == [detail |-> <<"Post", post_id, "does not exist">>]

\* faulty variant: create_comment without the check of the post
CheckPostSkipped(rec) == [rec EXCEPT !.pc = "insert"]

CheckPost(rec) ==
    LET post == FetchOne(posts, rec.comment.post_id)
    IN  IF post = NoRow
        THEN Respond(rec, HTTP_400_BAD_REQUEST, PostMissing(rec.comment.post_id))
        ELSE [rec EXCEPT !.pc = "insert"]

create_comment(r) ==
    /\ Accept(r)
    /\ \E comment \in CommentCreate :
          req' = [req EXCEPT ![r] =
                     CheckPost([Request("create_comment") EXCEPT !.comment = comment])]
    /\ UNCHANGED <<posts, comments, post_id_seq, comment_id_seq>>

InsertComment(table, comment_id, comment) ==
    table \cup {[id |-> comment_id, post_id |-> comment.post_id, body |-> comment.body]}

insert_comment(r) ==
    /\ req[r].op = "create_comment"
    /\ req[r].pc = "insert"
    /\ comments' = InsertComment(comments, comment_id_seq, req[r].comment)
    /\ comment_id_seq' = comment_id_seq + 1
    /\ req' = [req EXCEPT ![r].pc = "select_comment", ![r].comment_id = comment_id_seq]
    /\ UNCHANGED <<posts, post_id_seq, started>>

\* ctypes.cast(Mapping, raw_comment) raises ArgumentError for every argument:
\* the handler ends in an unhandled exception after the row is stored
select_comment(r) ==
    /\ req[r].op = "create_comment"
    /\ req[r].pc = "select_comment"
    /\ req' = [req EXCEPT ![r] = Respond(req[r], HTTP_500_INTERNAL_SERVER_ERROR, NoBody)]
    /\ UNCHANGED <<posts, comments, post_id_seq, comment_id_seq, started>>

\* ----------------------------------------------------------- list_comments
list_comments(r) ==
    /\ Accept(r)
    /\ \E rows \in FetchAll(comments) :
          req' = [req EXCEPT ![r] =
                     Respond(Request("list_comments"), HTTP_200_OK,
                             [rows |-> rows])]
    /\ UNCHANGED <<posts, comments, post_id_seq, comment_id_seq>>

Next ==
    \E r \in Reqs :
        \/ create_post(r)
        \/ select_post(r)
        \/ select_post_comments(r)
        \/ list_posts(r)
        \/ get_post(r)
        \/ update_post(r)
        \/ execute_update(r)
        \/ delete_post(r)
        \/ execute_delete(r)
        \/ create_comment(r)
        \/ insert_comment(r)
        \/ select_comment(r)
        \/ list_comments(r)

Spec == Init /\ [][Next]_vars

\* GET /posts alone, over every <<skip, limit>> up to MaxQuery
list_posts_any(r) ==
    /\ req[r].pc = "idle"
    /\ \E query \in AllQueries : ListPosts(r, query)
    /\ UNCHANGED <<posts, comments, post_id_seq, comment_id_seq, started>>

NextPagination == list_posts_any("r1")

SpecPagination == Init /\ [][NextPagination]_vars

\* ------------------------------------------------------------------ claims
Ids(table) == {row.id : row \in table}
Range(s)   == {s[i] : i \in DOMAIN s}
PostRow(id, post) == [id |-> id, title |-> post.title, content |-> post.content]
\* a response body carrying the id, title and content of a post
Shows(body, id, post) ==
    body.id = id /\ body.title = post.title /\ body.content = post.content
Finished(r, op, status) ==
    req[r].op = op /\ req[r].pc = "done" /\ req[r].status = status
\* the step on which request r arrives as a call of handler op (and runs up to
\* its first suspension), and the step on which r resumes from the await at pc
Arrives(r, op) == req'[r].n # req[r].n /\ req'[r].op = op
Resumes(r, op, pc) == req[r].op = op /\ req[r].pc = pc /\ req'[r].pc # pc

C2_PostExistsAtInsert ==
    [][\A r \in Reqs :
          Resumes(r, "create_comment", "insert") => req[r].comment.post_id \in Ids(posts)
      ]_vars

\* C3: create_comment naming a post_id without a post row responds 400 with a
\* message naming the post, and stores no comment row.
C3_MissingPostIs400 ==
    [][\A r \in Reqs :
          (Arrives(r, "create_comment") /\ req'[r].comment.post_id \notin Ids(posts)) =>
              /\ req'[r].pc = "done"
              /\ req'[r].status = 400
              /\ req'[r].body.detail = <<"Post", req'[r].comment.post_id, "does not exist">>
              /\ comments' = comments
              /\ comment_id_seq' = comment_id_seq
      ]_vars

C3_Witness ==
    \E r \in Reqs :
        /\ Finished(r, "create_comment", 400)
        /\ req[r].comment.post_id \notin Ids(posts)

C6_Pagination ==
    \A r \in Reqs :
        Finished(r, "list_posts", 200) =>
            LET skip  == req[r].skip
                limit == req[r].limit
                pg    == req[r].pagination
            IN  /\ skip # Unset => pg[1] = skip
                /\ skip = Unset => pg[1] = 0
                /\ pg[2] <= 100
                /\ (limit # Unset /\ limit <= 100) => pg[2] = limit
                /\ (limit # Unset /\ limit > 100) => pg[2] = 100
                /\ limit = Unset => pg[2] = 10

C6_Witness ==
    \E r \in Reqs :
        /\ Finished(r, "list_posts", 200)
        /\ req[r].skip = 7
        /\ req[r].limit = 101
        /\ req[r].pagination = <<7, 100>>

\* C7: list_posts returns at most min(L, 100) posts (L the requested limit, 10
\* when none is given), each a row of the posts table, none twice, and leaves
\* the posts table as it was.
C7_ListWindow ==
    [][\A r \in Reqs :
          Arrives(r, "list_posts") =>
              LET rows == req'[r].body.rows
                  L    == IF req'[r].limit = Unset THEN 10 ELSE req'[r].limit
              IN  /\ req'[r].status = 200
                  /\ Len(rows) <= (IF L <= 100 THEN L ELSE 100)
                  /\ \A i \in 1..Len(rows) : rows[i] \in posts
                  /\ \A i, j \in 1..Len(rows) : i # j => rows[i] # rows[j]
                  /\ posts' = posts
      ]_vars

\* a list with limit 1 answered from a table of three rows
C7_Witness ==
    \E r \in Reqs :
        /\ Finished(r, "list_posts", 200)
        /\ req[r].limit = 1
        /\ Len(req[r].body.rows) = 1
        /\ Cardinality(posts) = 3
        /\ started = req[r].n

\* C8: get_post of an existing post responds 200 with a comments list holding
\* exactly the comment rows of that post.
C8_DetailHasComments ==
    [][\A r \in Reqs :
          Resumes(r, "get_post", "dep_select_post_comments") =>
              /\ req'[r].status = 200
              /\ "comments" \in DOMAIN req'[r].body
              /\ Range(req'[r].body.comments) = {c \in comments : c.post_id = req[r].id}
      ]_vars

\* C9: get_post, update_post and delete_post of an id without a post row respond
\* 404 at once and change no table; a handler reaches its UPDATE or DELETE only
\* from the existence check, and passes the check only when the row is there.
C9_MissingIs404 ==
    [][\A r \in Reqs :
          /\ ((Arrives(r, "get_post") \/ Arrives(r, "update_post")
               \/ Arrives(r, "delete_post"))
              /\ req'[r].id \notin Ids(posts)) =>
                /\ req'[r].pc = "done"
                /\ req'[r].status = 404
                /\ posts' = posts
                /\ comments' = comments
          /\ (req'[r].pc = "dep_select_post_comments" /\ req'[r].n # req[r].n) =>
                req'[r].id \in Ids(posts)
          /\ (req'[r].pc = "execute" /\ req[r].pc # "execute") =>
                req[r].pc = "dep_select_post_comments"
          /\ posts' # posts =>
                \E q \in Reqs : req[q].pc = "execute" \/ Arrives(q, "create_post")
      ]_vars

C9_Witness ==
    /\ \E r \in Reqs : Finished(r, "update_post", 404) /\ req[r].id \notin Ids(posts)
    /\ \E r \in Reqs : Finished(r, "delete_post", 404) /\ req[r].id \notin Ids(posts)
    /\ posts # {}

\* C10: the DELETE of delete_post removes the post row of the requested id and
\* nothing else: the other post rows and all comment rows stay, and
\* list_comments returns every comment row, those of deleted posts included.
C10_DeleteFrame ==
    [][\A r \in Reqs :
          /\ Resumes(r, "delete_post", "execute") =>
                /\ posts' = {p \in posts : p.id # req[r].id}
                /\ Cardinality(posts \ posts') <= 1
                /\ comments' = comments
          /\ Arrives(r, "list_comments") =>
                /\ Range(req'[r].body.rows) = comments
                /\ Len(req'[r].body.rows) = Cardinality(comments)
      ]_vars

C10_Witness ==
    \E d, l \in Reqs :
        /\ Finished(d, "delete_post", 204)
        /\ req[d].id \notin Ids(posts)
        /\ Finished(l, "list_comments", 200)
        /\ req[l].n > req[d].n
        /\ \E i \in 1..Len(req[l].body.rows) : req[l].body.rows[i].post_id = req[d].id
====
